---- MODULE Spec2Model ----
(***************************************************************************)
(* Medication Tracker: the coordinator's registry of medications           *)
(* (coordinator.py), the engine operations of a medication entry           *)
(* (models.py: schedule, status, supply) and the storage document.         *)
(*                                                                         *)
(* Instants are integers counting half hours since local midnight of day   *)
(* 0.  An optional value is a sequence: <<>> when absent, <<v>> when set.  *)
(***************************************************************************)
EXTENDS Integers, Sequences, FiniteSets, TLC

VARIABLES
    medications,   \* self._medications: id -> MedicationEntry
    stored,        \* the document held by self._store: id -> to_dict()
    devices,       \* device registry: ids whose device exists
    now,           \* dt_util.now()
    next_id,       \* the next fresh uuid4
    last,          \* the last coordinator call: operation, arguments, result
    events,        \* events fired on the bus by the last call
    writable,      \* whether self._store.async_save succeeds (no OSError)
    removed,       \* ids whose remove returned True
    call,          \* call.data of the service call handled last
    tasks,         \* coroutines suspended at an await: slot -> position
    pending        \* the Store's document that is not yet written out

vars == <<medications, stored, devices, now, next_id, last, events,
          writable, removed, call, tasks, pending>>

----------------------------------------------------------------------------
(* Bounds of the model *)

MaxMeds == 1
MaxHistory == 2
MaxSupply == 3
MaxTasks == 2
MaxIds == 2

----------------------------------------------------------------------------
(* Values *)

None == <<>>
Some(v) == <<v>>
Val(o) == o[1]

HM(h, m) == 2 * h + (m \div 30)
DayLen == HM(24, 0)

Min(S) == CHOOSE x \in S : \A y \in S : x <= y
Max(S) == CHOOSE x \in S : \A y \in S : y <= x

FREQUENCY_DAILY == "daily"
FREQUENCY_WEEKLY == "weekly"
FREQUENCY_MONTHLY == "monthly"
FREQUENCY_AS_NEEDED == "as_needed"

STATE_DUE == "due"
STATE_TAKEN == "taken"
STATE_OVERDUE == "overdue"
STATE_NOT_DUE == "not_due"
STATE_SKIPPED == "skipped"

EVENT_MEDICATION_STATE_CHANGED == "medication_tracker_state_changed"
EVENT_MEDICATION_LOW_SUPPLY == "medication_tracker_low_supply"

\* faulty variant: a grace period of four hours
GracePeriod_FourHours == HM(4, 0)

\* Grace period after a due instant during which the status stays due.
GracePeriod == HM(2, 0)
\* Window in which a logged dose of an unscheduled medication still shows.
RecentWindow == HM(1, 0)

EmptyReg == [id \in {} |-> None]

\* faulty variant: the entry is stored under every key of the registry
With_Everywhere(reg, id, e) == [i \in DOMAIN reg \cup {id} |-> e]

Without(reg, id) == [i \in DOMAIN reg \ {id} |-> reg[i]]
With(reg, id, e) == [i \in DOMAIN reg \cup {id} |-> IF i = id THEN e ELSE reg[i]]

----------------------------------------------------------------------------
(* models.py: MedicationEntry *)

\* faulty variant: the instant is kept as it is
start_of_local_day_Identity(t) == t

\* dt_util.start_of_local_day
start_of_local_day(t) == (t \div DayLen) * DayLen

HasSchedule(data) ==
    data.frequency # FREQUENCY_AS_NEEDED /\ data.times # <<>>

\* The occurrences of the times-of-day on one day.
Occurrences(data, day) ==
    {day * DayLen + data.times[i] : i \in DOMAIN data.times}

\* The active window [start_date, end_date], both inclusive.
InWindow(data, t) ==
    /\ data.start_date = None \/ Val(data.start_date) <= t
    /\ data.end_date = None \/ t <= Val(data.end_date)

\* faulty variant: after today's last dose the first time of the list is taken
compute_next_due_FirstListed(data, t) ==
    IF ~HasSchedule(data) THEN None
    ELSE LET today == t \div DayLen
             todays == {o \in Occurrences(data, today) : o >= t}
             cand == IF todays # {} THEN Min(todays)
                     ELSE (today + 1) * DayLen + data.times[1]
         IN  IF InWindow(data, cand) THEN Some(cand) ELSE None

\* Schedule Calculator: the next due instant at or after now.
compute_next_due(data, t) ==
    IF ~HasSchedule(data) THEN None
    ELSE LET today == t \div DayLen
             todays == {o \in Occurrences(data, today) : o >= t}
             cand == IF todays # {} THEN Min(todays)
                     ELSE Min(Occurrences(data, today + 1))
         IN  IF InWindow(data, cand) THEN Some(cand) ELSE None

\* The most recent due instant at or before now.
most_recent_due(data, t) ==
    IF ~HasSchedule(data) THEN None
    ELSE LET today == t \div DayLen
             todays == {o \in Occurrences(data, today) : o <= t}
             cand == IF todays # {} THEN Max(todays)
                     ELSE Max(Occurrences(data, today - 1))
         IN  IF InWindow(data, cand) THEN Some(cand) ELSE None

\* The due instant that follows due instant d.
following_due(data, d) ==
    LET day == d \div DayLen
        later == {o \in Occurrences(data, day) : o > d}
    IN  IF later # {} THEN Min(later) ELSE Min(Occurrences(data, day + 1))

\* The status of a dose record.
RecordStatus(r) == IF r.taken THEN STATE_TAKEN ELSE STATE_SKIPPED

\* Medication State Machine: the status at instant t.
ComputeStatus(e, t) ==
    LET d == most_recent_due(e.data, t)
        h == e.dose_history
    IN  IF d = None
        THEN IF /\ h # <<>>
                /\ t - RecentWindow <= h[Len(h)].timestamp
                /\ h[Len(h)].timestamp <= t
             THEN RecordStatus(h[Len(h)])
             ELSE STATE_NOT_DUE
        ELSE LET fol == following_due(e.data, Val(d))
                 recs == {i \in DOMAIN h :
                            Val(d) <= h[i].timestamp /\ h[i].timestamp < fol}
             IN  IF recs # {} THEN RecordStatus(h[Max(recs)])
                 ELSE IF t < Val(d) + GracePeriod THEN STATE_DUE
                 ELSE STATE_OVERDUE

update_status(e, t) ==
    [e EXCEPT !.status = ComputeStatus(e, t),
              !.next_due = compute_next_due(e.data, t)]

\* reset_schedule: discards the cached next-due value.
reset_schedule(e) == [e EXCEPT !.next_due = None]

\* faulty variant: the new record is put in front of the history
record_dose_Prepends(e, at, taken) ==
    update_status(
        [e EXCEPT !.dose_history =
            <<[timestamp |-> at, taken |-> taken]>> \o @], at)

\* faulty variant: the new record replaces the history
record_dose_Replaces(e, at, taken) ==
    update_status(
        [e EXCEPT !.dose_history = <<[timestamp |-> at, taken |-> taken]>>],
        at)

\* record_dose_taken / record_dose_skipped: append, then re-evaluate.
record_dose(e, at, taken) ==
    update_status(
        [e EXCEPT !.dose_history =
            Append(@, [timestamp |-> at, taken |-> taken])], at)

record_dose_taken(e, at) == record_dose(e, at, TRUE)
record_dose_skipped(e, at) == record_dose(e, at, FALSE)

\* Supply Tracker: daily consumption as a fraction <<num, den>> of pills
\* per day, None when it cannot be derived.
TakenTimes(e) ==
    {e.dose_history[i].timestamp :
        i \in {j \in DOMAIN e.dose_history : e.dose_history[j].taken}}

daily_consumption(e) ==
    IF e.data.frequency = FREQUENCY_DAILY
    THEN Some(<<e.data.pills_per_dose *
                (IF e.data.times = <<>> THEN 1 ELSE Len(e.data.times)), 1>>)
    ELSE LET n == Cardinality({i \in DOMAIN e.dose_history :
                                 e.dose_history[i].taken})
         IN  IF n < 2 THEN None
             ELSE Some(<<e.data.pills_per_dose * n,
                         (Max(TakenTimes(e)) \div DayLen)
                           - (Min(TakenTimes(e)) \div DayLen) + 1>>)

\* days_of_supply_remaining <= refill_reminder_threshold
is_low_supply(e) ==
    /\ e.data.supply_tracking_enabled
    /\ e.data.current_supply # None
    /\ daily_consumption(e) # None
    /\ LET c == Val(daily_consumption(e))
       IN  /\ c[1] > 0
           /\ Val(e.data.current_supply) * c[2]
                <= e.data.refill_reminder_threshold * c[1]

decrement_supply(e) ==
    IF e.data.supply_tracking_enabled /\ e.data.current_supply # None
    THEN [e EXCEPT !.data.current_supply =
            Some(IF Val(@) - e.data.pills_per_dose > 0
                 THEN Val(@) - e.data.pills_per_dose ELSE 0)]
    ELSE e

\* datetime.date(): the day of an instant.
DateOf(t) == t \div DayLen

\* estimated_refill_date: today plus the whole days of supply remaining
\* (current_supply / daily_consumption, rounded down); none when the supply
\* is absent or the consumption is none or zero.
estimated_refill_date(e, t) ==
    IF e.data.current_supply = None \/ daily_consumption(e) = None THEN None
    ELSE LET c == Val(daily_consumption(e))
         IN  IF c[1] = 0 THEN None
             ELSE Some(DateOf(t)
                         + ((Val(e.data.current_supply) * c[2]) \div c[1]))

\* MedicationEntry(id, data, event_callback)
MedicationEntry(data) ==
    [data |-> data, dose_history |-> <<>>,
     status |-> STATE_NOT_DUE, next_due |-> None]

\* faulty variant: the dose history is not read back
from_dict_NoHistory(d) ==
    [data |-> d.data, dose_history |-> <<>>,
     status |-> STATE_NOT_DUE, next_due |-> None]

to_dict(e) == [data |-> e.data, dose_history |-> e.dose_history]
from_dict(d) ==
    [data |-> d.data, dose_history |-> d.dose_history,
     status |-> STATE_NOT_DUE, next_due |-> None]

----------------------------------------------------------------------------
(* Inputs *)

\* The instants dt_util.now() takes in the model.
ClockInstants == {HM(7, 0), HM(9, 30), HM(11, 0)}

\* Explicit timestamps a caller passes to take, skip or refill.
ExplicitInstants == {HM(9, 30)}

BaseData ==
    [name |-> "med", dosage |-> "10mg", notes |-> "",
     frequency |-> FREQUENCY_DAILY, times |-> <<HM(8, 0)>>,
     start_date |-> None, end_date |-> None,
     supply_tracking_enabled |-> FALSE, current_supply |-> None,
     pills_per_dose |-> 1, refill_reminder_threshold |-> 1,
     last_refill_date |-> None, show_refill_on_calendar |-> FALSE]

\* MedicationData as handle_add_medication builds it from a validated call.
AddInputs ==
    { [BaseData EXCEPT !.supply_tracking_enabled = TRUE,
                       !.current_supply = Some(3),
                       !.pills_per_dose = 2,
                       !.show_refill_on_calendar = TRUE],
      [BaseData EXCEPT !.frequency = FREQUENCY_AS_NEEDED,
                       !.current_supply = Some(2),
                       !.refill_reminder_threshold = 7],
      [BaseData EXCEPT !.times = <<>>,
                       !.supply_tracking_enabled = TRUE,
                       !.pills_per_dose = 2] }

\* MedicationData as handle_update_medication builds it: start_date and
\* last_refill_date are those of the current entry unless the call has them.
UpdateInputs(cur) ==
    { [d EXCEPT !.start_date = cur.start_date,
                !.last_refill_date = cur.last_refill_date] : d \in AddInputs }

RefillAmounts == {2}
SupplyValues == {1, MaxSupply}
Ids == 1..(MaxMeds + 1)

----------------------------------------------------------------------------
(* coordinator.py: MedicationCoordinator *)

Call(op, id, at, amount, result) ==
    [op |-> op, id |-> id, at |-> at, amount |-> amount, result |-> result]

\* faulty variant: every evaluation of the status notifies
StateChanged_Always(id, before, after) ==
    {<<EVENT_MEDICATION_STATE_CHANGED, id>>}

\* The state-changed event of an evaluation that changed the status.
StateChanged(id, before, after) ==
    IF before.status # after.status
    THEN {<<EVENT_MEDICATION_STATE_CHANGED, id>>} ELSE {}

\* async_load_medications: every stored medication is put into the registry.
async_load_medications(meds, doc) ==
    [id \in DOMAIN meds \cup DOMAIN doc |->
        IF id \in DOMAIN doc THEN from_dict(doc[id]) ELSE meds[id]]

\* faulty variant: the registry is never written to the store
async_save_medications_Skipped(meds) == stored

\* async_save_medications: the document the store holds afterwards; when
\* the write raises OSError the error is logged and the document is as before.
async_save_medications(meds) ==
    IF writable THEN [id \in DOMAIN meds |-> to_dict(meds[id])] ELSE stored

\* faulty variant: the refresh loads the store but evaluates no status
UpdateData_LoadOnly(meds, doc, t) ==
    [meds |-> IF DOMAIN meds = {} THEN async_load_medications(meds, doc)
              ELSE meds,
     events |-> {}]

\* _async_update_data: loads when the registry is empty, then re-evaluates
\* the status of every medication.  Yields the registry and the events.
UpdateData(meds, doc, t) ==
    LET loaded == IF DOMAIN meds = {} THEN async_load_medications(meds, doc)
                  ELSE meds
        after == [id \in DOMAIN loaded |-> update_status(loaded[id], t)]
    IN  [meds |-> after,
         events |-> UNION {StateChanged(id, loaded[id], after[id]) :
                             id \in DOMAIN loaded}]

\* async_refresh runs _async_update_data at once; async_request_refresh is
\* debounced: it runs at once or leaves the refresh to a later sweep.
Refresh(meds, doc, t, immediate) ==
    IF immediate THEN UpdateData(meds, doc, t)
    ELSE [meds |-> meds, events |-> {}]

\* return False, faulty variant: the failure is reported as a success
ReturnFalse_AsTrue(op, medication_id, at, amount) ==
    /\ last' = Call(op, medication_id, at, amount, TRUE)
    /\ events' = {}
    /\ UNCHANGED <<medications, stored, devices, now, next_id>>

\* return False: the call fails before it changes anything.
ReturnFalse(op, medication_id, at, amount) ==
    /\ last' = Call(op, medication_id, at, amount, FALSE)
    /\ events' = {}
    /\ UNCHANGED <<medications, stored, devices, now, next_id>>

\* faulty variant: the precondition of the supply operations is not checked
SupplyTrackingEnabled_Unchecked(medication) == TRUE

\* medication.data.supply_tracking_enabled, the precondition of refill and
\* update_supply.
SupplyTrackingEnabled(medication) == medication.data.supply_tracking_enabled

\* faulty variant: only the data is replaced, next_due and status stay
UpdateEntry_DataOnly(medication, medication_data, t) ==
    [medication EXCEPT !.data = medication_data]

\* faulty variant: the status is not re-evaluated after the data is replaced
UpdateEntry_Stale(medication, medication_data, t) ==
    reset_schedule([medication EXCEPT !.data = medication_data])

\* async_update_medication on the entry: replace the data, reset the
\* schedule, re-evaluate the status.
UpdateEntry(medication, medication_data, t) ==
    update_status(
        reset_schedule([medication EXCEPT !.data = medication_data]), t)

\* faulty variant: a take decrements the supply whether or not it is tracked
\* and present
TakeDose_Unconditional(medication, at) ==
    LET was_low_supply == is_low_supply(medication)
        m1 == record_dose_taken(medication, at)
        s == IF m1.data.current_supply = None THEN 0
             ELSE Val(m1.data.current_supply)
        m2 == [m1 EXCEPT !.data.current_supply =
                  Some(IF s - m1.data.pills_per_dose > 0
                       THEN s - m1.data.pills_per_dose ELSE 0)]
    IN  [medication |-> m2, recorded |-> m1,
         low |-> /\ m1.data.supply_tracking_enabled
                 /\ ~was_low_supply /\ is_low_supply(m2)]

\* faulty variant: the supply is not decremented
TakeDose_NoDecrement(medication, at) ==
    LET m1 == record_dose_taken(medication, at)
    IN  [medication |-> m1, recorded |-> m1, low |-> FALSE]

\* faulty variant: the event fires whenever the supply is low after the take
TakeDose_LevelTriggered(medication, at) ==
    LET m1 == record_dose_taken(medication, at)
        m2 == IF m1.data.supply_tracking_enabled
              THEN decrement_supply(m1) ELSE m1
    IN  [medication |-> m2, recorded |-> m1,
         low |-> m1.data.supply_tracking_enabled /\ is_low_supply(m2)]

\* faulty variant: the dose is recorded as skipped
TakeDose_RecordsSkipped(medication, at) ==
    LET was_low_supply == is_low_supply(medication)
        m1 == record_dose_skipped(medication, at)
        m2 == IF m1.data.supply_tracking_enabled
              THEN decrement_supply(m1) ELSE m1
    IN  [medication |-> m2, recorded |-> m1,
         low |-> /\ m1.data.supply_tracking_enabled
                 /\ ~was_low_supply /\ is_low_supply(m2)]

\* async_take_medication on the entry: record the dose, decrement the
\* supply when tracking is enabled, decide the low-supply event.
TakeDose(medication, at) ==
    LET was_low_supply == is_low_supply(medication)
        m1 == record_dose_taken(medication, at)
        m2 == IF m1.data.supply_tracking_enabled
              THEN decrement_supply(m1) ELSE m1
    IN  [medication |-> m2, recorded |-> m1,
         low |-> /\ m1.data.supply_tracking_enabled
                 /\ ~was_low_supply /\ is_low_supply(m2)]

\* faulty variant: the refill replaces the supply instead of adding to it
RefillData_Overwrites(medication, refill_amount, refill_date, t) ==
    [medication EXCEPT
        !.data.current_supply = Some(refill_amount),
        !.data.last_refill_date =
            IF refill_date = None THEN Some(t) ELSE refill_date]

\* async_refill_medication on the entry: add to the supply, set the date.
RefillData(medication, refill_amount, refill_date, t) ==
    LET current == IF medication.data.current_supply = None THEN 0
                   ELSE Val(medication.data.current_supply)
    IN  [medication EXCEPT
            !.data.current_supply = Some(current + refill_amount),
            !.data.last_refill_date =
                IF refill_date = None THEN Some(t) ELSE refill_date]

\* The periodic refresh.
_async_update_data ==
    LET r == UpdateData(medications, stored, now)
    IN  /\ medications' = r.meds
        /\ events' = r.events
        /\ last' = Call("sweep", 0, None, None, TRUE)
        /\ UNCHANGED <<stored, devices, now, next_id>>

async_add_medication(medication_data, immediate) ==
    LET data == IF medication_data.start_date = None
                THEN [medication_data EXCEPT
                        !.start_date = Some(start_of_local_day(now))]
                ELSE medication_data
        id == next_id
        reg == With(medications, id, MedicationEntry(data))
        doc == async_save_medications(reg)
        r == Refresh(reg, doc, now, immediate)
    IN  /\ medications' = r.meds
        /\ stored' = doc
        /\ devices' = devices \cup {id}
        /\ next_id' = next_id + 1
        /\ events' = r.events
        /\ last' = Call("add", id, None, None, TRUE)
        /\ UNCHANGED now

async_remove_medication(medication_id, immediate) ==
    IF medication_id \in DOMAIN medications
    THEN LET reg == Without(medications, medication_id)
             doc == async_save_medications(reg)
             r == Refresh(reg, doc, now, immediate)
         IN  /\ medications' = r.meds
             /\ stored' = doc
             /\ devices' = devices \ {medication_id}
             /\ events' = r.events
             /\ last' = Call("remove", medication_id, None, None, TRUE)
             /\ UNCHANGED <<now, next_id>>
    ELSE ReturnFalse("remove", medication_id, None, None)

async_update_medication(medication_id, medication_data, immediate) ==
    IF medication_id \notin DOMAIN medications
    THEN ReturnFalse("update", medication_id, None, None)
    ELSE LET medication == medications[medication_id]
             m1 == UpdateEntry(medication, medication_data, now)
             reg == With(medications, medication_id, m1)
             doc == async_save_medications(reg)
             r == Refresh(reg, doc, now, immediate)
         IN  /\ medications' = r.meds
             /\ stored' = doc
             /\ events' = StateChanged(medication_id, medication, m1)
                            \cup r.events
             /\ last' = Call("update", medication_id, None, None, TRUE)
             /\ UNCHANGED <<devices, now, next_id>>

async_take_medication(medication_id, taken_at) ==
    IF medication_id \notin DOMAIN medications
    THEN ReturnFalse("take", medication_id, taken_at, None)
    ELSE LET medication == medications[medication_id]
             at == IF taken_at = None THEN now ELSE Val(taken_at)
             taken == TakeDose(medication, at)
             reg == With(medications, medication_id, taken.medication)
             doc == async_save_medications(reg)
             r == Refresh(reg, doc, now, TRUE)
         IN  /\ Len(medication.dose_history) < MaxHistory
             /\ medications' = r.meds
             /\ stored' = doc
             /\ events' =
                  StateChanged(medication_id, medication, taken.recorded)
                    \cup (IF taken.low
                          THEN {<<EVENT_MEDICATION_LOW_SUPPLY, medication_id>>}
                          ELSE {})
                    \cup r.events
             /\ last' = Call("take", medication_id, taken_at, None, TRUE)
             /\ UNCHANGED <<devices, now, next_id>>

async_skip_medication(medication_id, skipped_at) ==
    IF medication_id \notin DOMAIN medications
    THEN ReturnFalse("skip", medication_id, skipped_at, None)
    ELSE LET medication == medications[medication_id]
             at == IF skipped_at = None THEN now ELSE Val(skipped_at)
             m1 == record_dose_skipped(medication, at)
             reg == With(medications, medication_id, m1)
             doc == async_save_medications(reg)
             r == Refresh(reg, doc, now, TRUE)
         IN  /\ Len(medication.dose_history) < MaxHistory
             /\ medications' = r.meds
             /\ stored' = doc
             /\ events' = StateChanged(medication_id, medication, m1)
                            \cup r.events
             /\ last' = Call("skip", medication_id, skipped_at, None, TRUE)
             /\ UNCHANGED <<devices, now, next_id>>

async_refill_medication(medication_id, refill_amount, refill_date, immediate) ==
    IF medication_id \notin DOMAIN medications
    THEN ReturnFalse("refill", medication_id, refill_date, Some(refill_amount))
    ELSE IF ~SupplyTrackingEnabled(medications[medication_id])
    THEN ReturnFalse("refill", medication_id, refill_date, Some(refill_amount))
    ELSE LET medication == medications[medication_id]
             m1 == RefillData(medication, refill_amount, refill_date, now)
             reg == With(medications, medication_id, m1)
             doc == async_save_medications(reg)
             r == Refresh(reg, doc, now, immediate)
         IN  /\ Val(m1.data.current_supply) <= MaxSupply
             /\ medications' = r.meds
             /\ stored' = doc
             /\ events' = r.events
             /\ last' = Call("refill", medication_id, refill_date,
                             Some(refill_amount), TRUE)
             /\ UNCHANGED <<devices, now, next_id>>

async_update_supply(medication_id, new_supply, immediate) ==
    IF medication_id \notin DOMAIN medications
    THEN ReturnFalse("set_supply", medication_id, None, Some(new_supply))
    ELSE IF ~SupplyTrackingEnabled(medications[medication_id])
    THEN ReturnFalse("set_supply", medication_id, None, Some(new_supply))
    ELSE LET medication == medications[medication_id]
             was_low_supply == is_low_supply(medication)
             m1 == [medication EXCEPT !.data.current_supply = Some(new_supply)]
             low == IF ~was_low_supply /\ is_low_supply(m1)
                    THEN {<<EVENT_MEDICATION_LOW_SUPPLY, medication_id>>}
                    ELSE {}
             reg == With(medications, medication_id, m1)
             doc == async_save_medications(reg)
             r == Refresh(reg, doc, now, immediate)
         IN  /\ medications' = r.meds
             /\ stored' = doc
             /\ events' = low \cup r.events
             /\ last' = Call("set_supply", medication_id, None,
                             Some(new_supply), TRUE)
             /\ UNCHANGED <<devices, now, next_id>>

\* Time passes.
Advance ==
    /\ \E t \in ClockInstants : t > now /\ now' = t
    /\ last' = Call("advance", 0, None, None, TRUE)
    /\ events' = {}
    /\ UNCHANGED <<medications, stored, devices, next_id>>

----------------------------------------------------------------------------
(* Specification *)

\* A medication stored by an earlier run of the integration.
StoredBefore ==
    1 :> to_dict(MedicationEntry(
            [BaseData EXCEPT !.start_date = Some(0),
                             !.supply_tracking_enabled = TRUE,
                             !.current_supply = Some(3),
                             !.pills_per_dose = 2,
                             !.show_refill_on_calendar = TRUE]))

\* A slot of the event loop that holds no coroutine of the coordinator.
Idle == [pc |-> "idle"]
Slots == 1..MaxTasks

\* No coroutine is suspended.
NoTasks == [slot \in Slots |-> Idle]

\* The parts of the state that only some specifications move.
InitRest ==
    /\ writable = TRUE
    /\ removed = {}
    /\ call = None
    /\ tasks = NoTasks
    /\ pending = None

\* async_remove_medication returned True for an id.
Removal ==
    removed' = IF last'.op = "remove" /\ last'.result
               THEN removed \cup {last'.id} ELSE removed

Init ==
    /\ InitRest
    /\ medications = EmptyReg
    /\ stored \in {EmptyReg, StoredBefore}
    /\ devices = DOMAIN stored
    /\ now = Min(ClockInstants)
    /\ next_id = Cardinality(DOMAIN stored) + 1
    /\ last = Call("init", 0, None, None, TRUE)
    /\ events = {}

OptInstants == {None} \cup {Some(t) : t \in ExplicitInstants}

\* What a step of the operations run to completion leaves alone.
Frame ==
    /\ Removal
    /\ UNCHANGED <<writable, call, tasks, pending>>

Next ==
    \/ _async_update_data /\ Frame
    \/ Advance /\ Frame
    \/ \E d \in AddInputs, im \in BOOLEAN :
         next_id <= MaxMeds /\ async_add_medication(d, im) /\ Frame
    \/ \E id \in Ids, im \in BOOLEAN :
         async_remove_medication(id, im) /\ Frame
    \/ \E id \in Ids, im \in BOOLEAN :
         \E d \in (IF id \in DOMAIN medications
                   THEN UpdateInputs(medications[id].data) ELSE AddInputs) :
            async_update_medication(id, d, im) /\ Frame
    \/ \E id \in Ids, at \in OptInstants :
         async_take_medication(id, at) /\ Frame
    \/ \E id \in Ids, at \in OptInstants :
         async_skip_medication(id, at) /\ Frame
    \/ \E id \in Ids, n \in RefillAmounts, at \in OptInstants, im \in BOOLEAN :
         async_refill_medication(id, n, at, im) /\ Frame
    \/ \E id \in Ids, v \in SupplyValues, im \in BOOLEAN :
         async_update_supply(id, v, im) /\ Frame

Spec == Init /\ [][Next]_vars

----------------------------------------------------------------------------
(* Specification of the schedule: one medication, drawn from a wider set of
   schedules and active windows, evaluated every half hour of several days *)

SchedDays == 3

SchedInputs ==
    { [BaseData EXCEPT !.frequency = f, !.times = ts,
                       !.start_date = sd, !.end_date = ed] :
        f \in {FREQUENCY_DAILY},
        ts \in {<<HM(8, 0)>>, <<HM(8, 0), HM(20, 0)>>,
                <<HM(20, 0), HM(8, 0)>>, <<HM(0, 0), HM(23, 30)>>},
        sd \in {None, Some(DayLen)},
        ed \in {None, Some(DayLen - 1), Some(2 * DayLen - 1)} }
    \cup { [BaseData EXCEPT !.frequency = FREQUENCY_AS_NEEDED],
           [BaseData EXCEPT !.times = <<>>] }

InitSched ==
    /\ InitRest
    /\ medications \in {1 :> MedicationEntry(d) : d \in SchedInputs}
    /\ stored = async_save_medications(medications)
    /\ devices = {1}
    /\ now = 0
    /\ next_id = 2
    /\ last = Call("init", 0, None, None, TRUE)
    /\ events = {}

Tick ==
    /\ now < SchedDays * DayLen
    /\ now' = now + 1
    /\ last' = Call("advance", 0, None, None, TRUE)
    /\ events' = {}
    /\ UNCHANGED <<medications, stored, devices, next_id>>

NextSched ==
    \/ _async_update_data /\ Frame
    \/ Tick /\ Frame

SpecSched == InitSched /\ [][NextSched]_vars

\* The clock moves on by half an hour.  The refresh runs every minute, so
\* a sweep has run since the clock moved last.
TickAfterSweep == last.op = "sweep" /\ Tick

NextFair ==
    \/ _async_update_data /\ Frame
    \/ TickAfterSweep /\ Frame

\* The schedule under the periodic sweep: the sweep is not put off for ever.
SpecFair ==
    InitSched /\ [][NextFair]_vars /\ WF_vars(_async_update_data /\ Frame)

----------------------------------------------------------------------------
(* Specification with storage failures: the same operations, run to
   completion at one instant, while the store may start to refuse writes
   (OSError) *)

\* From now on the store refuses to write.
StorageFails ==
    /\ writable
    /\ writable' = FALSE
    /\ last' = Call("storage", 0, None, None, TRUE)
    /\ events' = {}
    /\ UNCHANGED <<medications, stored, devices, now, next_id>>

FrameFail ==
    /\ Removal
    /\ UNCHANGED <<call, tasks, pending>>

NextFail ==
    \/ _async_update_data /\ FrameFail /\ UNCHANGED writable
    \/ \E d \in AddInputs, im \in BOOLEAN :
         /\ next_id <= MaxMeds
         /\ async_add_medication(d, im) /\ FrameFail /\ UNCHANGED writable
    \/ \E id \in Ids, im \in BOOLEAN :
         async_remove_medication(id, im) /\ FrameFail /\ UNCHANGED writable
    \/ \E id \in DOMAIN medications, im \in BOOLEAN :
         \E d \in UpdateInputs(medications[id].data) :
            /\ async_update_medication(id, d, im)
            /\ FrameFail /\ UNCHANGED writable
    \/ \E id \in DOMAIN medications :
         async_take_medication(id, None) /\ FrameFail /\ UNCHANGED writable
    \/ \E id \in DOMAIN medications :
         async_skip_medication(id, None) /\ FrameFail /\ UNCHANGED writable
    \/ \E id \in DOMAIN medications, n \in RefillAmounts, im \in BOOLEAN :
         /\ async_refill_medication(id, n, None, im)
         /\ FrameFail /\ UNCHANGED writable
    \/ \E id \in DOMAIN medications, v \in SupplyValues, im \in BOOLEAN :
         /\ async_update_supply(id, v, im)
         /\ FrameFail /\ UNCHANGED writable
    \/ StorageFails /\ FrameFail

SpecFail == Init /\ [][NextFail]_vars

----------------------------------------------------------------------------
(* Specification of the coroutines: every operation runs up to its first
   await (the write of the store), is suspended there while other
   operations may start, and resumes to create the device of an added
   medication, refresh and return.  The store keeps the document handed to
   it last and writes it out when a write is due. *)

\* The document self._store.async_load() yields: the one not yet written
\* out, else the one on disk.
StoreDocument == IF pending # None THEN Val(pending) ELSE stored

\* The call passes its checks: the id is known and, for the supply
\* operations, supply tracking is enabled.
Accepted(op, medication_id) ==
    \/ op = "add"
    \/ /\ medication_id \in DOMAIN medications
       /\ op \in {"refill", "set_supply"} =>
             SupplyTrackingEnabled(medications[medication_id])

\* faulty variant: a take only appends to the history before it is suspended
Applied_HistoryOnly(op, medication_id, medication_data, amount) ==
    CASE op = "add" ->
           With(medications, next_id, MedicationEntry(medication_data))
      [] op = "remove" -> Without(medications, medication_id)
      [] op = "update" ->
           With(medications, medication_id,
                UpdateEntry(medications[medication_id], medication_data, now))
      [] op = "take" ->
           With(medications, medication_id,
                record_dose_taken(medications[medication_id], now))
      [] op = "skip" ->
           With(medications, medication_id,
                record_dose_skipped(medications[medication_id], now))
      [] op = "refill" ->
           With(medications, medication_id,
                RefillData(medications[medication_id], amount, None, now))
      [] op = "set_supply" ->
           With(medications, medication_id,
                [medications[medication_id] EXCEPT
                    !.data.current_supply = Some(amount)])

\* The registry after the part of an accepted call that runs before its
\* first await.
Applied(op, medication_id, medication_data, amount) ==
    CASE op = "add" ->
           With(medications, next_id, MedicationEntry(medication_data))
      [] op = "remove" -> Without(medications, medication_id)
      [] op = "update" ->
           With(medications, medication_id,
                UpdateEntry(medications[medication_id], medication_data, now))
      [] op = "take" ->
           With(medications, medication_id,
                TakeDose(medications[medication_id], now).medication)
      [] op = "skip" ->
           With(medications, medication_id,
                record_dose_skipped(medications[medication_id], now))
      [] op = "refill" ->
           With(medications, medication_id,
                RefillData(medications[medication_id], amount, None, now))
      [] op = "set_supply" ->
           With(medications, medication_id,
                [medications[medication_id] EXCEPT
                    !.data.current_supply = Some(amount)])

\* The events fired before the first await.
AppliedEvents(op, medication_id, reg) ==
    IF op \in {"add", "remove", "refill"} THEN {}
    ELSE LET medication == medications[medication_id]
             changed ==
               IF op = "take"
               THEN StateChanged(medication_id, medication,
                                 TakeDose(medication, now).recorded)
               ELSE StateChanged(medication_id, medication,
                                 reg[medication_id])
             low ==
               IF \/ op = "take" /\ TakeDose(medication, now).low
                  \/ /\ op = "set_supply"
                     /\ ~is_low_supply(medication)
                     /\ is_low_supply(reg[medication_id])
               THEN {<<EVENT_MEDICATION_LOW_SUPPLY, medication_id>>}
               ELSE {}
         IN  changed \cup low

\* The slot a coroutine that is about to be suspended takes.
FreeSlot(slot) ==
    /\ tasks[slot] = Idle
    /\ \A other \in Slots : tasks[other] = Idle => slot <= other

\* A call starts: it fails at once, or it mutates the registry, hands the
\* document to the store and is suspended in the write.
Begin(slot, op, medication_id, medication_data, amount) ==
    /\ FreeSlot(slot)
    /\ IF ~Accepted(op, medication_id)
       THEN /\ ReturnFalse(op, medication_id, None,
                           IF amount = 0 THEN None ELSE Some(amount))
            /\ UNCHANGED <<tasks, pending, removed>>
       ELSE LET id == IF op = "add" THEN next_id ELSE medication_id
                data == IF op = "add" /\ medication_data.start_date = None
                        THEN [medication_data EXCEPT
                                !.start_date = Some(start_of_local_day(now))]
                        ELSE medication_data
                reg == Applied(op, medication_id, data, amount)
            IN  /\ op \in {"take", "skip"} =>
                      Len(medications[id].dose_history) < MaxHistory
                /\ op = "refill" =>
                      Val(reg[id].data.current_supply) <= MaxSupply
                /\ op = "add" => next_id <= MaxMeds
                /\ medications' = reg
                /\ pending' = Some(async_save_medications(reg))
                /\ devices' = IF op = "remove" THEN devices \ {id}
                              ELSE devices
                /\ next_id' = IF op = "add" THEN next_id + 1 ELSE next_id
                /\ events' = AppliedEvents(op, id, reg)
                /\ tasks' = [tasks EXCEPT
                               ![slot] = [pc |-> "write", op |-> op, id |-> id]]
                /\ UNCHANGED <<stored, now, last, removed>>
    /\ UNCHANGED <<writable, call>>

\* The write a call waits for is done: the store has written out the
\* document handed to it last, if it had not been written yet.
StoreWritten(slot) ==
    /\ tasks[slot] # Idle /\ tasks[slot].pc = "write"
    /\ stored' = StoreDocument
    /\ pending' = None
    /\ tasks' = [tasks EXCEPT ![slot].pc = "resume"]
    /\ UNCHANGED <<medications, devices, now, next_id, last, events,
                   writable, removed, call>>

\* The call resumes after its save: add creates the device, every call
\* refreshes (take and skip at once, the others debounced) and returns.
Resume(slot, immediate) ==
    /\ tasks[slot] # Idle /\ tasks[slot].pc = "resume"
    /\ LET t == tasks[slot]
           r == Refresh(medications, StoreDocument, now,
                        immediate \/ t.op \in {"take", "skip"})
       IN  /\ medications' = r.meds
           /\ events' = r.events
           /\ devices' = IF t.op = "add" THEN devices \cup {t.id} ELSE devices
           /\ last' = Call(t.op, t.id, None, None, TRUE)
           /\ removed' = IF t.op = "remove" THEN removed \cup {t.id}
                         ELSE removed
    /\ tasks' = [tasks EXCEPT ![slot] = Idle]
    /\ UNCHANGED <<stored, pending, now, next_id, writable, call>>

\* The periodic refresh starts: with an empty registry it is suspended in
\* the load of the store, else it re-evaluates every status at once.
SweepStarts(slot) ==
    /\ FreeSlot(slot)
    /\ IF DOMAIN medications = {}
       THEN /\ tasks' = [tasks EXCEPT
                           ![slot] = [pc |-> "load", op |-> "sweep", id |-> 0]]
            /\ UNCHANGED <<medications, events, last>>
       ELSE LET r == UpdateData(medications, StoreDocument, now)
            IN  /\ medications' = r.meds
                /\ events' = r.events
                /\ last' = Call("sweep", 0, None, None, TRUE)
                /\ UNCHANGED tasks
    /\ UNCHANGED <<stored, pending, devices, now, next_id,
                   writable, removed, call>>

\* The load the refresh waits for is done: every stored medication is put
\* into the registry, then every status is re-evaluated.
SweepLoaded(slot) ==
    /\ tasks[slot] # Idle /\ tasks[slot].pc = "load"
    /\ LET loaded == async_load_medications(medications, StoreDocument)
           after == [id \in DOMAIN loaded |-> update_status(loaded[id], now)]
       IN  /\ medications' = after
           /\ events' = UNION {StateChanged(id, loaded[id], after[id]) :
                                 id \in DOMAIN loaded}
    /\ last' = Call("sweep", 0, None, None, TRUE)
    /\ tasks' = [tasks EXCEPT ![slot] = Idle]
    /\ UNCHANGED <<stored, pending, devices, now, next_id,
                   writable, removed, call>>

\* The coroutines are observed at one instant, half past nine.
InitTasks ==
    /\ InitRest
    /\ medications = EmptyReg
    /\ stored \in {EmptyReg, StoredBefore}
    /\ devices = DOMAIN stored
    /\ now = HM(9, 30)
    /\ next_id = Cardinality(DOMAIN stored) + 1
    /\ last = Call("init", 0, None, None, TRUE)
    /\ events = {}

\* The medications added and the data passed to update while coroutines
\* are observed: the scheduled ones.
TaskInputs == {d \in AddInputs : d.times # <<>>}

NextTasks ==
    \/ \E slot \in Slots, d \in TaskInputs : Begin(slot, "add", 0, d, 0)
    \/ \E slot \in Slots, id \in Ids : Begin(slot, "remove", id, None, 0)
    \/ \E slot \in Slots, id \in Ids :
         \E d \in (IF id \in DOMAIN medications
                   THEN {x \in UpdateInputs(medications[id].data) :
                           x.times # <<>>}
                   ELSE TaskInputs) :
            Begin(slot, "update", id, d, 0)
    \/ \E slot \in Slots, id \in Ids : Begin(slot, "take", id, None, 0)
    \/ \E slot \in Slots, id \in Ids : Begin(slot, "skip", id, None, 0)
    \/ \E slot \in Slots, id \in Ids, n \in RefillAmounts :
         Begin(slot, "refill", id, None, n)
    \/ \E slot \in Slots, id \in Ids, v \in SupplyValues :
         Begin(slot, "set_supply", id, None, v)
    \/ \E slot \in Slots : StoreWritten(slot)
    \/ \E slot \in Slots, im \in BOOLEAN : Resume(slot, im)
    \/ \E slot \in Slots : SweepStarts(slot)
    \/ \E slot \in Slots : SweepLoaded(slot)

SpecTasks == InitTasks /\ [][NextTasks]_vars

----------------------------------------------------------------------------
(* services.py: the service calls.  call.data is a record whose fields are
   optional values; a date is the number of its day. *)

\* cv.positive_int: vol.All(vol.Coerce(int), vol.Range(min=0))
positive_int(v) == v \in Int /\ v >= 0

\* vol.Optional(key): cv.positive_int
OptionalPositiveInt(field) == field = None \/ positive_int(Val(field))

\* call.data.get(key, default)
Get(field, default) == IF field = None THEN default ELSE Val(field)

Frequencies ==
    {FREQUENCY_DAILY, FREQUENCY_WEEKLY, FREQUENCY_MONTHLY, FREQUENCY_AS_NEEDED}

\* faulty variant: the service is registered without its schema
ADD_MEDICATION_SCHEMA_Unchecked(data) == TRUE

ADD_MEDICATION_SCHEMA(data) ==
    /\ data.name # None
    /\ data.dosage # None
    /\ data.frequency # None /\ Val(data.frequency) \in Frequencies
    /\ OptionalPositiveInt(data.current_supply)
    /\ OptionalPositiveInt(data.pills_per_dose)
    /\ OptionalPositiveInt(data.refill_reminder_threshold)

UPDATE_MEDICATION_SCHEMA(data) ==
    /\ data.frequency = None \/ Val(data.frequency) \in Frequencies
    /\ OptionalPositiveInt(data.current_supply)
    /\ OptionalPositiveInt(data.pills_per_dose)
    /\ OptionalPositiveInt(data.refill_reminder_threshold)

\* A date as the start of its local day, and as the end of its local day
\* (start + 1 day - 1 microsecond: the last instant of the day).
StartOfDate(day) == start_of_local_day(day * DayLen)
EndOfDate(day) == start_of_local_day(day * DayLen) + DayLen - 1

\* The MedicationData handle_add_medication builds from a validated call
\* (the schema has filled in the defaults and guarantees the required keys).
AddedData(data) ==
    [name |-> Get(data.name, ""),
     dosage |-> Get(data.dosage, ""),
     frequency |-> Get(data.frequency, FREQUENCY_DAILY),
     times |-> Get(data.times, <<>>),
     start_date |-> IF data.start_date = None THEN None
                    ELSE Some(StartOfDate(Val(data.start_date))),
     end_date |-> IF data.end_date = None THEN None
                  ELSE Some(EndOfDate(Val(data.end_date))),
     notes |-> Get(data.notes, ""),
     supply_tracking_enabled |-> Get(data.supply_tracking_enabled, FALSE),
     current_supply |-> data.current_supply,
     pills_per_dose |-> Get(data.pills_per_dose, 1),
     refill_reminder_threshold |-> Get(data.refill_reminder_threshold, 7),
     last_refill_date |-> None,
     show_refill_on_calendar |-> Get(data.show_refill_on_calendar, FALSE)]

\* faulty variant: a day is added to the current end date as it is
MergedData_EndDateDrifts(data, current) ==
    [name |-> Get(data.name, current.name),
     dosage |-> Get(data.dosage, current.dosage),
     frequency |-> Get(data.frequency, current.frequency),
     times |-> Get(data.times, current.times),
     start_date |->
        IF data.start_date # None
        THEN Some(StartOfDate(Val(data.start_date)))
        ELSE IF current.start_date = None THEN None
        ELSE Some(start_of_local_day(Val(current.start_date))),
     end_date |->
        IF data.end_date # None THEN Some(EndOfDate(Val(data.end_date)))
        ELSE IF current.end_date = None THEN None
        ELSE Some(Val(current.end_date) + DayLen - 1),
     notes |-> Get(data.notes, current.notes),
     supply_tracking_enabled |->
        Get(data.supply_tracking_enabled, current.supply_tracking_enabled),
     current_supply |->
        IF data.current_supply # None THEN data.current_supply
        ELSE current.current_supply,
     pills_per_dose |-> Get(data.pills_per_dose, current.pills_per_dose),
     refill_reminder_threshold |->
        Get(data.refill_reminder_threshold, current.refill_reminder_threshold),
     last_refill_date |-> current.last_refill_date,
     show_refill_on_calendar |->
        Get(data.show_refill_on_calendar, current.show_refill_on_calendar)]

\* The MedicationData handle_update_medication builds: every field the call
\* does not carry keeps the current value; the dates, taken from the call
\* or from the current data, are put on their day boundary.
MergedData(data, current) ==
    [name |-> Get(data.name, current.name),
     dosage |-> Get(data.dosage, current.dosage),
     frequency |-> Get(data.frequency, current.frequency),
     times |-> Get(data.times, current.times),
     start_date |->
        IF data.start_date # None
        THEN Some(StartOfDate(Val(data.start_date)))
        ELSE IF current.start_date = None THEN None
        ELSE Some(start_of_local_day(Val(current.start_date))),
     end_date |->
        IF data.end_date # None THEN Some(EndOfDate(Val(data.end_date)))
        ELSE IF current.end_date = None THEN None
        ELSE Some(start_of_local_day(Val(current.end_date)) + DayLen - 1),
     notes |-> Get(data.notes, current.notes),
     supply_tracking_enabled |->
        Get(data.supply_tracking_enabled, current.supply_tracking_enabled),
     current_supply |->
        IF data.current_supply # None THEN data.current_supply
        ELSE current.current_supply,
     pills_per_dose |-> Get(data.pills_per_dose, current.pills_per_dose),
     refill_reminder_threshold |->
        Get(data.refill_reminder_threshold, current.refill_reminder_threshold),
     last_refill_date |-> current.last_refill_date,
     show_refill_on_calendar |->
        Get(data.show_refill_on_calendar, current.show_refill_on_calendar)]

\* vol.Invalid: the call is rejected before its handler runs.
Invalid(op) ==
    /\ last' = Call(op, 0, None, None, FALSE)
    /\ events' = {}
    /\ UNCHANGED <<medications, stored, devices, now, next_id>>

FrameService ==
    /\ Removal
    /\ UNCHANGED <<writable, tasks, pending>>

handle_add_medication(data, immediate) ==
    /\ call' = data
    /\ IF ~ADD_MEDICATION_SCHEMA(data) THEN Invalid("add")
       ELSE /\ Cardinality(DOMAIN medications) < MaxMeds
            /\ next_id <= MaxIds
            /\ async_add_medication(AddedData(data), immediate)
    /\ FrameService

handle_remove_medication(medication_id, immediate) ==
    /\ call' = [medication_id |-> medication_id]
    /\ async_remove_medication(medication_id, immediate)
    /\ FrameService

handle_update_medication(medication_id, data, immediate) ==
    /\ call' = data
    /\ IF ~UPDATE_MEDICATION_SCHEMA(data) THEN Invalid("update")
       ELSE IF medication_id \notin DOMAIN medications
       THEN ReturnFalse("update", medication_id, None, None)
       ELSE async_update_medication(
                medication_id,
                MergedData(data, medications[medication_id].data), immediate)
    /\ FrameService

handle_take_medication(medication_id) ==
    /\ call' = [medication_id |-> medication_id]
    /\ async_take_medication(medication_id, None)
    /\ FrameService

handle_refill_medication(medication_id, refill_amount, immediate) ==
    /\ call' = [medication_id |-> medication_id,
                refill_amount |-> refill_amount]
    /\ IF ~positive_int(refill_amount) THEN Invalid("refill")
       ELSE async_refill_medication(medication_id, refill_amount, None,
                                    immediate)
    /\ FrameService

handle_update_supply(medication_id, current_supply, immediate) ==
    /\ call' = [medication_id |-> medication_id,
                current_supply |-> current_supply]
    /\ IF ~positive_int(current_supply) THEN Invalid("set_supply")
       ELSE async_update_supply(medication_id, current_supply, immediate)
    /\ FrameService

\* call.data of a service call that carries no optional field.
NoFields ==
    [name |-> None, dosage |-> None, frequency |-> None, times |-> None,
     start_date |-> None, end_date |-> None, notes |-> None,
     supply_tracking_enabled |-> None, current_supply |-> None,
     pills_per_dose |-> None, refill_reminder_threshold |-> None,
     show_refill_on_calendar |-> None]

\* A well-formed add call: the required fields and one dose at 08:00.
AddCall ==
    [NoFields EXCEPT !.name = Some("med"), !.dosage = Some("10mg"),
                     !.frequency = Some(FREQUENCY_DAILY),
                     !.times = Some(<<HM(8, 0)>>)]

\* The add calls made: well-formed ones (with a start date, with supply
\* tracking, with zero pills per dose) and malformed ones (no name, a
\* frequency that is not supported, a negative supply).
AddCalls ==
    { AddCall,
      [AddCall EXCEPT !.start_date = Some(0), !.end_date = Some(1)],
      [AddCall EXCEPT !.supply_tracking_enabled = Some(TRUE),
                      !.current_supply = Some(3),
                      !.pills_per_dose = Some(2)],
      [AddCall EXCEPT !.supply_tracking_enabled = Some(TRUE),
                      !.current_supply = Some(2),
                      !.pills_per_dose = Some(0)],
      [AddCall EXCEPT !.name = None],
      [AddCall EXCEPT !.frequency = Some("hourly")],
      [AddCall EXCEPT !.supply_tracking_enabled = Some(TRUE),
                      !.current_supply = Some(-1)] }

\* The update calls made: the id alone, new times, a new frequency.
UpdateCalls ==
    { NoFields,
      [NoFields EXCEPT !.times = Some(<<HM(12, 0)>>)],
      [NoFields EXCEPT !.frequency = Some(FREQUENCY_AS_NEEDED)] }

\* The ids service calls name: those of the registry and an unknown one.
ServiceIds == DOMAIN medications \cup {MaxIds + 1}

\* The services are called at one instant, 11:00 on the second day.
InitService ==
    /\ InitRest
    /\ medications = EmptyReg
    /\ stored \in {EmptyReg, StoredBefore}
    /\ devices = DOMAIN stored
    /\ now = DayLen + HM(11, 0)
    /\ next_id = Cardinality(DOMAIN stored) + 1
    /\ last = Call("init", 0, None, None, TRUE)
    /\ events = {}

NextService ==
    \/ _async_update_data /\ UNCHANGED call /\ FrameService
    \/ \E data \in AddCalls, im \in BOOLEAN : handle_add_medication(data, im)
    \/ \E id \in ServiceIds, im \in BOOLEAN :
         handle_remove_medication(id, im)
    \/ \E id \in ServiceIds, data \in UpdateCalls, im \in BOOLEAN :
         handle_update_medication(id, data, im)
    \/ \E id \in ServiceIds : handle_take_medication(id)
    \/ \E id \in ServiceIds, n \in {0} \cup RefillAmounts, im \in BOOLEAN :
         handle_refill_medication(id, n, im)
    \/ \E id \in ServiceIds, v \in {0} \cup SupplyValues, im \in BOOLEAN :
         handle_update_supply(id, v, im)

SpecService == InitService /\ [][NextService]_vars

----------------------------------------------------------------------------
(* Specification of two medications: both are in the registry, added on the
   same day and evaluated by a sweep at half past nine; the calls name the
   one, the other or an unknown id. *)

\* The medications of the pair and the data passed to update: those with
\* supply tracking, with and without a schedule.
PairInputs ==
    {[d EXCEPT !.start_date = Some(0)] :
        d \in {x \in AddInputs : x.supply_tracking_enabled}}

PairIds == {1, 2, 3}

InitPair ==
    /\ InitRest
    /\ medications \in
         {(1 :> update_status(MedicationEntry(d1), HM(9, 30)))
            @@ (2 :> update_status(MedicationEntry(d2), HM(9, 30))) :
              d1 \in PairInputs, d2 \in PairInputs}
    /\ stored = async_save_medications(medications)
    /\ devices = {1, 2}
    /\ now = HM(9, 30)
    /\ next_id = 3
    /\ last = Call("init", 0, None, None, TRUE)
    /\ events = {}

NextPair ==
    \/ _async_update_data /\ Frame
    \/ \E id \in PairIds, im \in BOOLEAN :
         async_remove_medication(id, im) /\ Frame
    \/ \E id \in DOMAIN medications, im \in BOOLEAN :
         \E d \in {x \in UpdateInputs(medications[id].data) :
                     x.supply_tracking_enabled} :
            async_update_medication(id, d, im) /\ Frame
    \/ \E id \in DOMAIN medications :
         async_take_medication(id, None) /\ Frame
    \/ \E id \in DOMAIN medications :
         async_skip_medication(id, None) /\ Frame
    \/ \E id \in DOMAIN medications, n \in RefillAmounts, im \in BOOLEAN :
         async_refill_medication(id, n, None, im) /\ Frame
    \/ \E id \in DOMAIN medications, v \in SupplyValues, im \in BOOLEAN :
         async_update_supply(id, v, im) /\ Frame

SpecPair == InitPair /\ [][NextPair]_vars

----------------------------------------------------------------------------
(* calendar.py: MedicationTrackerCalendar.  An event is a record of its
   kind, its medication, its start, its length in minutes, its summary and
   its uid. *)

\* start_date.date() <= dose_time.date() <= end_date.date()
InDates(t, start_date, end_date) ==
    DateOf(start_date) <= DateOf(t) /\ DateOf(t) <= DateOf(end_date)

\* The event of a dose record.
DoseEvent(medication_id, r) ==
    [kind |-> "dose", id |-> medication_id, start |-> r.timestamp,
     minutes |-> 5,
     summary |-> IF r.taken THEN "Taken" ELSE "Skipped",
     uid |-> <<medication_id, "", r.timestamp>>]

\* The refill-needed event on a date, at nine o'clock.
RefillEvent(medication_id, refill_date) ==
    [kind |-> "refill", id |-> medication_id,
     start |-> refill_date * DayLen + HM(9, 0),
     minutes |-> 60,
     summary |-> "Refill Needed",
     uid |-> <<medication_id, "refill", refill_date>>]

\* The events of one medication, as the loop body appends them.
MedicationEvents(medication_id, start_date, end_date) ==
    LET medication == medications[medication_id]
        shown == SelectSeq(medication.dose_history,
                           LAMBDA r : InDates(r.timestamp, start_date,
                                              end_date))
        doses == [i \in DOMAIN shown |-> DoseEvent(medication_id, shown[i])]
        refill_date == estimated_refill_date(medication, now)
    IN  IF /\ medication.data.supply_tracking_enabled
           /\ medication.data.show_refill_on_calendar
           /\ refill_date # None
           /\ DateOf(start_date) <= Val(refill_date)
           /\ Val(refill_date) <= DateOf(end_date)
        THEN Append(doses, RefillEvent(medication_id, Val(refill_date)))
        ELSE doses

\* for medication_id, medication in medications.items()
RECURSIVE EventsOf(_, _, _)
EventsOf(ids, start_date, end_date) ==
    IF ids = {} THEN <<>>
    ELSE MedicationEvents(Min(ids), start_date, end_date)
           \o EventsOf(ids \ {Min(ids)}, start_date, end_date)

\* list.sort(key=start): a stable sort.
RECURSIVE SortByStart(_)
SortByStart(evs) ==
    IF evs = <<>> THEN <<>>
    ELSE LET rest == SortByStart(Tail(evs))
             before == {k \in DOMAIN rest : rest[k].start < Head(evs).start}
             n == Cardinality(before)
         IN  SubSeq(rest, 1, n) \o <<Head(evs)>> \o SubSeq(rest, n + 1, Len(rest))

async_get_events(start_date, end_date) ==
    SortByStart(EventsOf(DOMAIN medications, start_date, end_date))

\* The ranges the calendar is asked for: instants of the first day, whole
\* days, and a range that ends before it starts.
CalendarRanges ==
    { <<HM(9, 30), HM(9, 30)>>, <<HM(9, 30), HM(11, 0)>>,
      <<0, DayLen - 1>>, <<0, 2 * DayLen - 1>>,
      <<DayLen, 2 * DayLen - 1>>, <<2 * DayLen, 3 * DayLen - 1>>,
      <<HM(11, 0), HM(7, 0)>> }

----------------------------------------------------------------------------
(* Properties *)

Registered(id) == id \in DOMAIN medications
Supply(e) == e.data.current_supply
LowSupplyEvent(id) == <<EVENT_MEDICATION_LOW_SUPPLY, id>>
ById == {"remove", "update", "take", "skip", "refill", "set_supply"}

\* C1: remove, update, take, skip, refill and set_supply called with an id
\* that is not in the registry return false and change nothing: the registry
\* (ids, data, dose history, supply, status), the stored document and the
\* devices are as before, and no event is fired.
C1_UnknownIdChangesNothing ==
    [][(last'.op \in ById /\ ~Registered(last'.id)) =>
          /\ last'.result = FALSE
          /\ medications' = medications
          /\ stored' = stored
          /\ devices' = devices
          /\ events' = {}]_vars

C1_Witness ==
    /\ last.op = "take" /\ last.id = 2 /\ last.result = FALSE
    /\ DOMAIN medications = {1}
    /\ medications[1].dose_history # <<>>

\* C2: refill and set_supply on a medication whose supply tracking is
\* disabled return false, leave its current_supply and last_refill_date
\* unchanged and fire no low-supply event.
C2_TrackingDisabledRejected ==
    [][(/\ last'.op \in {"refill", "set_supply"}
        /\ Registered(last'.id)
        /\ ~medications[last'.id].data.supply_tracking_enabled) =>
          /\ last'.result = FALSE
          /\ last'.id \in DOMAIN medications'
          /\ Supply(medications'[last'.id]) = Supply(medications[last'.id])
          /\ medications'[last'.id].data.last_refill_date
               = medications[last'.id].data.last_refill_date
          /\ LowSupplyEvent(last'.id) \notin events']_vars

C2_Witness ==
    /\ last.op = "set_supply" /\ last.result = FALSE
    /\ Registered(last.id)
    /\ ~medications[last.id].data.supply_tracking_enabled

\* C3: a successful refill(id, amount, date) sets current_supply to its
\* previous value plus amount (an absent supply counting as 0) and
\* last_refill_date to date, or to the current time when no date is given;
\* a successful set_supply(id, value) sets current_supply to value.
C3_RefillAddsSetSupplySets ==
    [][/\ (last'.op = "refill" /\ last'.result) =>
            /\ Registered(last'.id) /\ last'.id \in DOMAIN medications'
            /\ Supply(medications'[last'.id]) =
                 Some((IF Supply(medications[last'.id]) = None THEN 0
                       ELSE Val(Supply(medications[last'.id])))
                      + Val(last'.amount))
            /\ medications'[last'.id].data.last_refill_date =
                 (IF last'.at = None THEN Some(now) ELSE last'.at)
       /\ (last'.op = "set_supply" /\ last'.result) =>
            /\ last'.id \in DOMAIN medications'
            /\ Supply(medications'[last'.id]) = last'.amount]_vars

C3_Witness ==
    /\ last.op = "refill" /\ last.result /\ last.at = None
    /\ Registered(last.id)
    /\ Supply(medications[last.id]) = Some(3)
    /\ medications[last.id].data.last_refill_date = Some(now)

\* C4: a take on a tracking-enabled medication with current_supply s and
\* pills_per_dose p leaves current_supply = max(0, s - p), and current_supply
\* is never below 0.
C4_TakeDecrementsClamped ==
    [][/\ (/\ last'.op = "take" /\ last'.result
           /\ medications[last'.id].data.supply_tracking_enabled
           /\ Supply(medications[last'.id]) # None) =>
            LET s == Val(Supply(medications[last'.id]))
                p == medications[last'.id].data.pills_per_dose
            IN  Supply(medications'[last'.id]) =
                  Some(IF s - p >= 0 THEN s - p ELSE 0)
       /\ \A id \in DOMAIN medications' :
            Supply(medications'[id]) # None
              => Val(Supply(medications'[id])) >= 0]_vars

\* A take of two pills that found one pill left.
C4_Witness ==
    /\ last.op = "take" /\ last.result
    /\ medications[last.id].data.pills_per_dose = 2
    /\ Supply(medications[last.id]) = Some(0)
    /\ Len(medications[last.id].dose_history) = 2

\* C5: the low-supply event is edge-triggered: a call fires it for a
\* medication only if is_low_supply was false before the call and is true
\* after it.
C5_LowSupplyEdgeTriggered ==
    [][\A id \in Ids :
          LowSupplyEvent(id) \in events' =>
            /\ Registered(id) /\ id \in DOMAIN medications'
            /\ ~is_low_supply(medications[id])
            /\ is_low_supply(medications'[id])]_vars

C5_Witness ==
    /\ last.op = "take" /\ LowSupplyEvent(last.id) \in events
    /\ is_low_supply(medications[last.id])

\* C6: every transition of a medication's is_low_supply from false to true
\* fires a low-supply event, whichever call causes it.
C6_EveryLowTransitionNotified ==
    [][\A id \in DOMAIN medications \cap DOMAIN medications' :
          (~is_low_supply(medications[id]) /\ is_low_supply(medications'[id]))
            => LowSupplyEvent(id) \in events']_vars

\* C7: a dose recorded as taken (skipped) at an instant shows as status
\* taken (skipped) when the status is evaluated at that instant; after a
\* successful take or skip without a timestamp the status is taken,
\* respectively skipped.
C7_RecordedDoseShows ==
    /\ (last.op = "take" /\ last.result /\ last.at = None) =>
          Registered(last.id) /\ medications[last.id].status = STATE_TAKEN
    /\ (last.op = "skip" /\ last.result /\ last.at = None) =>
          Registered(last.id) /\ medications[last.id].status = STATE_SKIPPED
    /\ \A id \in DOMAIN medications :
         \A t \in ClockInstants \cup ExplicitInstants :
            /\ update_status(record_dose_taken(medications[id], t), t).status
                 = STATE_TAKEN
            /\ update_status(record_dose_skipped(medications[id], t), t).status
                 = STATE_SKIPPED

\* A take without a timestamp of a scheduled medication that was overdue.
C7_Witness ==
    /\ last.op = "take" /\ last.result /\ last.at = None
    /\ HasSchedule(medications[last.id].data)
    /\ now = HM(11, 0)
    /\ medications[last.id].status = STATE_TAKEN

\* The due instants of a daily medication up to instant t.
DueUpTo(data, t) ==
    {o \in 0..t : /\ \E i \in DOMAIN data.times : o % DayLen = data.times[i]
                  /\ InWindow(data, o)}

\* C8: for a daily medication with no dose record at or after its most
\* recent due instant d <= now, the status evaluated at now is due while
\* now < d + grace period and overdue from then on; with times 08:00 and a
\* two-hour grace period it is due at 09:30 and overdue at 11:00.
C8_DueThenOverdue ==
    last.op = "sweep" =>
      \A id \in DOMAIN medications :
        LET e == medications[id]
            due == DueUpTo(e.data, now)
        IN  /\ (/\ e.data.frequency = FREQUENCY_DAILY
                /\ due # {}
                /\ \A i \in DOMAIN e.dose_history :
                      e.dose_history[i].timestamp < Max(due)) =>
                  e.status = (IF now < Max(due) + GracePeriod
                              THEN STATE_DUE ELSE STATE_OVERDUE)
            /\ (/\ e.data.frequency = FREQUENCY_DAILY
                /\ e.data.times = <<HM(8, 0)>>
                /\ e.dose_history = <<>>) =>
                  /\ now = HM(9, 30) => e.status = STATE_DUE
                  /\ now = HM(11, 0) => e.status = STATE_OVERDUE

\* A sweep at 11:00 finds the 08:00 dose overdue although an earlier dose,
\* taken at 07:00, is on record.
C8_Witness ==
    /\ last.op = "sweep" /\ now = HM(11, 0)
    /\ \E id \in DOMAIN medications :
         /\ medications[id].status = STATE_OVERDUE
         /\ medications[id].dose_history # <<>>

\* C9: a medication whose frequency is as_needed or whose times list is
\* empty has no next due instant, whatever the reference time, and its
\* status is never overdue.
C9_UnscheduledNeverOverdue ==
    \A id \in DOMAIN medications :
      LET e == medications[id]
      IN  (e.data.frequency = FREQUENCY_AS_NEEDED \/ e.data.times = <<>>) =>
            /\ e.status # STATE_OVERDUE
            /\ e.next_due = None
            /\ \A t \in 0..(2 * DayLen) : compute_next_due(e.data, t) = None

\* A medication that was overdue has been updated to as_needed.
C9_Witness ==
    /\ last.op = "update" /\ last.result
    /\ now = HM(11, 0)
    /\ medications[last.id].data.frequency = FREQUENCY_AS_NEEDED
    /\ medications[last.id].dose_history = <<>>
    /\ medications[last.id].status = STATE_NOT_DUE

\* The earliest occurrence of a time-of-day at or after instant t.
NextOccurrence(data, t) ==
    Min({o \in t..(t + DayLen) :
           \E i \in DOMAIN data.times : o % DayLen = data.times[i]})

\* C10 as stated: for every daily medication with a non-empty times list
\* and every reference time now, compute_next_due is an instant >= now on
\* one of the times-of-day, with no occurrence of a time-of-day between now
\* and it.
C10_NextDueAlwaysAnInstant ==
    \A id \in DOMAIN medications :
      LET data == medications[id].data
          r == compute_next_due(data, now)
      IN  (data.frequency = FREQUENCY_DAILY /\ data.times # <<>>) =>
            /\ r # None
            /\ Val(r) >= now
            /\ \E i \in DOMAIN data.times : Val(r) % DayLen = data.times[i]
            /\ \A o \in now..(Val(r) - 1) :
                 \A i \in DOMAIN data.times : o % DayLen # data.times[i]

\* C10 as amended: at a reference time now that is not before start_date,
\* when the earliest occurrence of a time-of-day at or after now is not
\* after end_date, compute_next_due is that occurrence (an instant >= now
\* on a time-of-day with no occurrence between) and a sweep stores it as
\* next_due; when now is past end_date, compute_next_due is none.
C10_NextDueEarliestInWindow ==
    \A id \in DOMAIN medications :
      LET data == medications[id].data
          o == NextOccurrence(data, now)
      IN  (data.frequency = FREQUENCY_DAILY /\ data.times # <<>>) =>
            /\ (/\ data.start_date = None \/ Val(data.start_date) <= now
                /\ data.end_date = None \/ o <= Val(data.end_date)) =>
                  /\ compute_next_due(data, now) = Some(o)
                  /\ last.op = "sweep" => medications[id].next_due = Some(o)
            /\ (data.end_date # None /\ now > Val(data.end_date)) =>
                  compute_next_due(data, now) = None

\* Late on day 1 the next dose is the 08:00 dose of day 2, the second time
\* of the list.
C10_Witness ==
    /\ last.op = "sweep"
    /\ now = DayLen + HM(21, 0)
    /\ medications[1].data.times = <<HM(20, 0), HM(8, 0)>>
    /\ medications[1].next_due = Some(2 * DayLen + HM(8, 0))

StateChangedEvent(id) == <<EVENT_MEDICATION_STATE_CHANGED, id>>

Mutating ==
    {"add", "remove", "update", "take", "skip", "refill", "set_supply"}

\* C12: after a failed write the registry stays authoritative: a medication
\* whose remove returned true is not in the registry in any later state,
\* whatever sweeps follow and whether or not the remove emptied the
\* registry and its save failed.
C12_RemovedStaysAbsent == removed \cap DOMAIN medications = {}

\* C13: an operation whose save fails still returns its success result and
\* the registry holds its mutation: the added id is there, the removed id is
\* not, the dose is appended, the supply is the new one, the data is the
\* new data.
C13_FailedSaveKeepsMutation ==
    [][(/\ ~writable
        /\ last'.op \in Mutating
        /\ last'.op # "add" => Registered(last'.id)
        /\ last'.op \in {"refill", "set_supply"} =>
              medications[last'.id].data.supply_tracking_enabled) =>
          /\ last'.result
          /\ stored' = stored
          /\ CASE last'.op = "add" ->
                    /\ ~Registered(last'.id)
                    /\ last'.id \in DOMAIN medications'
                 [] last'.op = "remove" ->
                    last'.id \notin DOMAIN medications'
                 [] last'.op \in {"take", "skip"} ->
                    /\ last'.id \in DOMAIN medications'
                    /\ medications'[last'.id].dose_history =
                         Append(medications[last'.id].dose_history,
                                [timestamp |-> now,
                                 taken |-> last'.op = "take"])
                 [] last'.op = "refill" ->
                    /\ last'.id \in DOMAIN medications'
                    /\ Supply(medications'[last'.id]) =
                         Some((IF Supply(medications[last'.id]) = None THEN 0
                               ELSE Val(Supply(medications[last'.id])))
                              + Val(last'.amount))
                 [] last'.op = "set_supply" ->
                    /\ last'.id \in DOMAIN medications'
                    /\ Supply(medications'[last'.id]) = last'.amount
                 [] last'.op = "update" ->
                    /\ last'.id \in DOMAIN medications'
                    /\ medications'[last'.id].data \in
                         UpdateInputs(medications[last'.id].data)]_vars

\* A call on a medication starts in this step and is suspended in its save.
Started(op, id) ==
    \E slot \in Slots :
       /\ tasks[slot] = Idle
       /\ tasks'[slot] # Idle
       /\ tasks'[slot].op = op /\ tasks'[slot].id = id

Quiescent == \A slot \in Slots : tasks[slot] = Idle

\* C14: every accepted add, remove, update, take, skip, refill and
\* set_supply hands the registry as it is after the mutation to the store;
\* and whenever no call is in flight, under every interleaving of the
\* calls at their awaits, the stored document has exactly the ids of the
\* registry, each with the data, dose history and supply of its entry.
C14_SavedAfterEveryMutation ==
    [][/\ \A op \in Mutating, id \in Ids :
            Started(op, id) =>
               pending' = Some([i \in DOMAIN medications' |->
                                  to_dict(medications'[i])])
       /\ (/\ \A slot \in Slots : tasks'[slot] = Idle
           /\ DOMAIN medications' # {} \/ removed' # {}) =>
              /\ pending' = None
              /\ stored' = [i \in DOMAIN medications' |->
                              to_dict(medications'[i])]]_vars

\* A take and an update of one medication have returned, no call is in
\* flight, and the document holds the dose of the one and the data of the
\* other.
C14_Witness ==
    /\ Quiescent /\ pending = None
    /\ last.op = "update" /\ last.result
    /\ Registered(last.id)
    /\ medications[last.id].data.frequency = FREQUENCY_AS_NEEDED
    /\ Len(medications[last.id].dose_history) = 1
    /\ stored = [i \in DOMAIN medications |-> to_dict(medications[i])]

\* C15: the operations are serialized: no call starts while another call
\* has started and has not yet returned.
C15_OperationsSerialized ==
    [][\A slot \in Slots :
          (tasks[slot] = Idle /\ tasks'[slot] # Idle) =>
             \A other \in Slots : tasks[other] = Idle]_vars

\* C16: no call leaves the registry half mutated where another call can
\* run: the step in which a take appends its record also decrements the
\* supply, no other step appends a taken record, and the step in which an
\* update replaces the data also resets the schedule and recomputes next_due
\* and status from the new data.
C16_NoPartialMutation ==
    [][\A id \in DOMAIN medications \cap DOMAIN medications' :
          LET e == medications[id]
              f == medications'[id]
              appended ==
                f.dose_history =
                  Append(e.dose_history, [timestamp |-> now, taken |-> TRUE])
          IN  /\ Started("take", id) <=> appended
              /\ appended =>
                    f.data = decrement_supply(e).data
              /\ Started("update", id) =>
                    /\ f.next_due = compute_next_due(f.data, now)
                    /\ f.status = ComputeStatus(f, now)
              /\ (f.data # e.data /\ ~appended) =>
                    \/ Started("update", id)
                    \/ Started("refill", id)
                    \/ Started("set_supply", id)]_vars

\* A take is suspended in its save, its record appended and its supply
\* decremented, while an update of the same medication is suspended too.
C16_Witness ==
    \E a, b \in Slots :
       /\ tasks[a] # Idle /\ tasks[a].op = "take" /\ tasks[a].pc = "write"
       /\ tasks[b] # Idle /\ tasks[b].op = "update"
       /\ Registered(tasks[a].id) /\ tasks[b].id = tasks[a].id
       /\ Len(medications[tasks[a].id].dose_history) = 1
       /\ Supply(medications[tasks[a].id]) = Some(1)

\* C17: in every reachable state every entry with supply tracking enabled
\* has pills_per_dose >= 1 and, when current_supply is set,
\* current_supply >= 0, whatever add, update, take, refill and set_supply
\* calls the services accepted.
C17_SupplyFieldsInRange ==
    \A id \in DOMAIN medications :
       medications[id].data.supply_tracking_enabled =>
          /\ medications[id].data.pills_per_dose >= 1
          /\ Supply(medications[id]) # None =>
                Val(Supply(medications[id])) >= 0

\* call.data of an add call is malformed: a required field is missing, the
\* frequency is not a supported one, or a count is negative.
Malformed(data) ==
    \/ data.name = None \/ data.dosage = None \/ data.frequency = None
    \/ Val(data.frequency) \notin {"daily", "weekly", "monthly", "as_needed"}
    \/ data.current_supply # None /\ Val(data.current_supply) < 0
    \/ data.pills_per_dose # None /\ Val(data.pills_per_dose) < 0
    \/ data.refill_reminder_threshold # None
         /\ Val(data.refill_reminder_threshold) < 0

\* C18: an add call with malformed data fails before any mutation: the
\* registry has the same ids and entries as before, nothing is saved, no
\* device is created and no id is used up.
C18_MalformedAddRejected ==
    [][(last'.op = "add" /\ Malformed(call')) =>
          /\ ~last'.result
          /\ medications' = medications
          /\ stored' = stored
          /\ devices' = devices
          /\ next_id' = next_id
          /\ events' = {}]_vars

\* An add with a negative supply was rejected while a medication is
\* registered.
C18_Witness ==
    /\ last.op = "add" /\ ~last.result
    /\ call.current_supply = Some(-1)
    /\ DOMAIN medications # {}

\* C19: a successful add inserts exactly one entry, under an id that is
\* neither in the registry nor in the store nor among the removed ids, and
\* returns that id; the entry's start_date is the start of the current
\* local day when the call has none and the start of the given date when it
\* has one.
C19_AddInsertsFreshId ==
    [][(last'.op = "add" /\ last'.result) =>
          /\ last'.id \notin DOMAIN medications \cup DOMAIN stored \cup removed
          /\ DOMAIN medications' = DOMAIN medications \cup {last'.id}
          /\ \A id \in DOMAIN medications :
                to_dict(medications'[id]) = to_dict(medications[id])
          /\ medications'[last'.id].dose_history = <<>>
          /\ medications'[last'.id].data.start_date =
                IF call'.start_date = None
                THEN Some(now - (now % DayLen))
                ELSE Some(Val(call'.start_date) * DayLen)]_vars

\* A second medication was added after the first was removed; it has the
\* default start date, the start of the second day.
C19_Witness ==
    /\ last.op = "add" /\ last.result
    /\ removed # {}
    /\ Registered(last.id)
    /\ call.start_date = None
    /\ medications[last.id].data.start_date = Some(DayLen)

\* C20: a successful update replaces the data by the data built from the
\* call, and when it returns next_due and status are the values computed
\* from the new data at the current time.
C20_UpdateRecomputesSchedule ==
    [][(last'.op = "update" /\ last'.result) =>
          LET e == medications'[last'.id]
          IN  /\ e.data = MergedData(call', medications[last'.id].data)
              /\ e.dose_history = medications[last'.id].dose_history
              /\ e.next_due = compute_next_due(e.data, now)
              /\ e.status = ComputeStatus(e, now)]_vars

\* An update at 11:00 moved the dose from 08:00 to 12:00: 12:00 of the day
\* is the next due instant, and the medication is not overdue.
C20_Witness ==
    /\ last.op = "update" /\ last.result
    /\ medications[last.id].data.times = <<HM(12, 0)>>
    /\ medications[last.id].next_due = Some(DayLen + HM(12, 0))
    /\ medications[last.id].status # STATE_OVERDUE
    /\ medications[last.id].dose_history = <<>>

\* C21: the dose history of a medication is append-only: a successful take
\* or skip appends exactly one record (taken for take, not taken for skip)
\* at the end of the history of its medication, and every other call
\* (update, refill, set_supply, sweep, a call on another medication, a call
\* that fails) leaves the history of every medication that stays in the
\* registry as it was: no record is modified, reordered or dropped.
C21_HistoryAppendOnly ==
    [][\A id \in DOMAIN medications \cap DOMAIN medications' :
          LET h == medications[id].dose_history
              g == medications'[id].dose_history
          IN  IF last'.op \in {"take", "skip"} /\ last'.result /\ last'.id = id
              THEN g = Append(h, [timestamp |->
                                    IF last'.at = None THEN now
                                    ELSE Val(last'.at),
                                  taken |-> last'.op = "take"])
              ELSE g = h]_vars

\* The first medication has a taken and a skipped dose on record, the
\* second one a dose of its own, and a refill of the second has just
\* succeeded.
C21_Witness ==
    /\ last.op = "refill" /\ last.result /\ last.id = 2
    /\ DOMAIN medications = {1, 2}
    /\ Len(medications[1].dose_history) = 2
    /\ medications[1].dose_history[1].taken
    /\ ~medications[1].dose_history[2].taken
    /\ Len(medications[2].dose_history) = 1

\* The records of a history are in timestamp order.
InTimestampOrder(h) ==
    \A i, j \in DOMAIN h : i < j => h[i].timestamp <= h[j].timestamp

\* C22 as stated: in every reachable state the records of each
\* medication's dose history are in timestamp order (timestamps never
\* decrease along the history), whether the take and skip calls carried a
\* timestamp or not.
C22_HistoryInTimestampOrder ==
    \A id \in DOMAIN medications :
       InTimestampOrder(medications[id].dose_history)

\* C22 as amended: a take or skip appends its record at the end of the
\* history whatever its timestamp, and a history that is in timestamp order
\* stays so under every step except a take or skip whose timestamp, the one
\* given or else the current time, is earlier than that of the last record;
\* after such a step the history is out of timestamp order.
C22_OrderKeptUnlessBackdated ==
    [][\A id \in DOMAIN medications \cap DOMAIN medications' :
          LET h == medications[id].dose_history
              g == medications'[id].dose_history
              at == IF last'.at = None THEN now ELSE Val(last'.at)
              recorded == /\ last'.op \in {"take", "skip"}
                          /\ last'.result /\ last'.id = id
              backdated == /\ recorded /\ h # <<>>
                           /\ at < h[Len(h)].timestamp
          IN  /\ recorded =>
                    /\ Len(g) = Len(h) + 1
                    /\ g[Len(g)].timestamp = at
              /\ InTimestampOrder(h) =>
                    (InTimestampOrder(g) <=> ~backdated)]_vars

\* At 11:00 a take without a timestamp has been recorded after a dose with
\* the timestamp 09:30: the history is in timestamp order.
C22_Witness ==
    /\ last.op = "take" /\ last.result /\ last.at = None
    /\ now = HM(11, 0)
    /\ Len(medications[last.id].dose_history) = 2
    /\ medications[last.id].dose_history[1].timestamp = HM(9, 30)
    /\ medications[last.id].dose_history[2].timestamp = HM(11, 0)

Shown(evs, kind, id) ==
    {k \in DOMAIN evs : evs[k].kind = kind /\ evs[k].id = id}

\* C24: for a queried range the calendar has exactly one entry for each
\* dose record, taken or skipped, whose timestamp lies in the range and
\* none for a record outside it; and for each medication at most one
\* refill-needed entry, present exactly when supply tracking and
\* show_refill_on_calendar are enabled and the estimated refill date exists
\* and lies in the range.
C24_CalendarExactlyInRange ==
    \A range \in CalendarRanges :
       LET evs == async_get_events(range[1], range[2])
       IN  /\ \A k \in DOMAIN evs : evs[k].id \in DOMAIN medications
           /\ \A id \in DOMAIN medications :
                 LET e == medications[id]
                     h == e.dose_history
                     d == estimated_refill_date(e, now)
                 IN  /\ Cardinality(Shown(evs, "dose", id)) =
                          Cardinality({i \in DOMAIN h :
                                         /\ range[1] <= h[i].timestamp
                                         /\ h[i].timestamp <= range[2]})
                     /\ \A k \in Shown(evs, "dose", id) :
                           /\ range[1] <= evs[k].start
                           /\ evs[k].start <= range[2]
                     /\ Cardinality(Shown(evs, "refill", id)) =
                          IF /\ e.data.supply_tracking_enabled
                             /\ e.data.show_refill_on_calendar
                             /\ d # None
                             /\ DateOf(range[1]) <= Val(d)
                             /\ Val(d) <= DateOf(range[2])
                          THEN 1 ELSE 0

\* A daily medication is past the grace period of its most recent due
\* instant, the latest occurrence of one of its times-of-day up to now,
\* which lies in its active window, and has no dose on record since that
\* instant.
PastGrace(id) ==
    LET e == medications[id]
        occ == {o \in 0..now :
                  \E i \in DOMAIN e.data.times : o % DayLen = e.data.times[i]}
    IN  /\ e.data.frequency = FREQUENCY_DAILY
        /\ occ # {}
        /\ InWindow(e.data, Max(occ))
        /\ now >= Max(occ) + GracePeriod
        /\ \A i \in DOMAIN e.dose_history :
              e.dose_history[i].timestamp < Max(occ)

\* C25: under the periodic sweep a medication that is due and has no dose
\* recorded becomes overdue by itself: once the time is past the due instant
\* plus the grace period, the next sweep sets the status to overdue, so that
\* the status is eventually overdue although no call has changed the
\* medication.
C25_EventuallyOverdue ==
    /\ [][(last'.op = "sweep" /\ PastGrace(1)') =>
             medications'[1].status = STATE_OVERDUE]_vars
    /\ PastGrace(1) ~> (medications[1].status = STATE_OVERDUE)

\* At 10:00 of the first day the sweep has turned the 08:00 dose, which
\* nobody took, overdue; the history is empty.
C25_Witness ==
    /\ last.op = "sweep" /\ now = HM(10, 0)
    /\ medications[1].data.times = <<HM(8, 0)>>
    /\ medications[1].dose_history = <<>>
    /\ medications[1].status = STATE_OVERDUE

\* C26: stored medications are loaded before any mutation is persisted: no
\* call, and in particular no add made before the first sweep has loaded
\* the store, writes a document that omits a stored medication which was
\* not removed; after an add every stored medication is also in the
\* registry.
C26_StoredLoadedBeforeSave ==
    [][\A id \in DOMAIN stored \ removed' :
          /\ id \in DOMAIN stored'
          /\ (last'.op = "add" /\ last'.result) =>
                id \in DOMAIN medications']_vars

\* C27: medications are independent: a take, skip, refill, set_supply,
\* update or remove that names one id leaves the data, the dose history and
\* the supply fields of every other medication of the registry as they
\* were, and neither adds nor removes any other id.
C27_MedicationsIndependent ==
    [][last'.op \in ById =>
          /\ DOMAIN medications' \ {last'.id} = DOMAIN medications \ {last'.id}
          /\ \A other \in DOMAIN medications \ {last'.id} :
                /\ medications'[other].data = medications[other].data
                /\ medications'[other].dose_history
                     = medications[other].dose_history]_vars

\* The first medication has been removed; the second one still has its two
\* doses on record and its supply.
C27_Witness ==
    /\ last.op = "remove" /\ last.result /\ last.id = 1
    /\ DOMAIN medications = {2}
    /\ Len(medications[2].dose_history) = 2
    /\ Supply(medications[2]) # None

\* The supply fields of an entry.
SupplyFields(e) == <<e.data.current_supply, e.data.last_refill_date>>

\* C28: skip and the periodic sweep never change current_supply or
\* last_refill_date of any medication; a take on a medication whose supply
\* tracking is disabled or whose current_supply is absent returns true and
\* appends the taken dose, and leaves the supply fields as they were.
C28_SupplyUntouched ==
    [][/\ last'.op \in {"skip", "sweep"} =>
            \A id \in DOMAIN medications \cap DOMAIN medications' :
               SupplyFields(medications'[id]) = SupplyFields(medications[id])
       /\ (/\ last'.op = "take" /\ Registered(last'.id)
           /\ \/ ~medications[last'.id].data.supply_tracking_enabled
              \/ Supply(medications[last'.id]) = None) =>
            /\ last'.result
            /\ last'.id \in DOMAIN medications'
            /\ SupplyFields(medications'[last'.id])
                 = SupplyFields(medications[last'.id])
            /\ medications'[last'.id].dose_history =
                 Append(medications[last'.id].dose_history,
                        [timestamp |-> IF last'.at = None THEN now
                                       ELSE Val(last'.at),
                         taken |-> TRUE])]_vars

\* A take on a medication with a supply of two pills and supply tracking
\* disabled has appended its dose; the supply is still two.
C28_Witness ==
    /\ last.op = "take" /\ last.result
    /\ ~medications[last.id].data.supply_tracking_enabled
    /\ Supply(medications[last.id]) = Some(2)
    /\ Len(medications[last.id].dose_history) = 1

\* C29: the update_medication service merges partial input: every field
\* the call does not carry keeps the medication's current value, and
\* last_refill_date always does; a call that carries the medication id only
\* leaves the data unchanged, start_date and end_date included, on which
\* the day-boundary normalisation is applied again.
C29_UpdateMergesPartialInput ==
    [][(last'.op = "update" /\ last'.result) =>
          LET current == medications[last'.id].data
              updated == medications'[last'.id].data
          IN  /\ \A field \in DOMAIN call' :
                    call'[field] = None => updated[field] = current[field]
              /\ updated.last_refill_date = current.last_refill_date
              /\ call' = NoFields => updated = current]_vars

\* An update that carried the id only has left a medication that runs from
\* the start of day 0 to the end of day 1 as it was.
C29_Witness ==
    /\ last.op = "update" /\ last.result
    /\ call = NoFields
    /\ medications[last.id].data.start_date = Some(0)
    /\ medications[last.id].data.end_date = Some(2 * DayLen - 1)

\* C30: once every add and remove has returned, a device exists only for a
\* medication that is registered (in the registry, or in the store and not
\* loaded yet), under every interleaving of the calls, and also when a
\* remove of a medication runs while the add of that medication is
\* suspended in its save.
C30_DeviceOnlyIfRegistered ==
    Quiescent =>
       \A id \in devices :
          id \in DOMAIN medications \cup DOMAIN StoreDocument

\* C31: in every result of a calendar range query the uids of the events
\* are pairwise distinct, whatever the dose history, also when two records
\* of one medication (two takes, or a take and a skip) carry the same
\* timestamp.
C31_CalendarUidsDistinct ==
    \A range \in CalendarRanges :
       LET evs == async_get_events(range[1], range[2])
       IN  \A j, k \in DOMAIN evs : j # k => evs[j].uid # evs[k].uid

====
